---- MODULE Spec2Model ----
\* Model of the pymarkdown pragma extension (pymarkdown/extensions/pragma_token.py)
\* and of the per-file scan driver (pymarkdown/main.py).
\*
\* Text is modelled as a sequence of one-character strings, so that prefixes,
\* slices, case folding and stripping are computed as Python computes them.
EXTENDS Integers, Sequences, FiniteSets, TLC

\* ---------------------------------------------------------------- bounds

\* Number of physical lines handed to look_for_pragmas in one pass.
MaxPragmaLines == 2
\* Largest container depth handed to look_for_pragmas.
MaxDepth == 1
\* Number of files in files_to_scan.
MaxFiles == 2
\* Number of physical lines of a file.
MaxFileLines == 2
\* Number of tokens the tokenizer returns for a file.
MaxTokens == 2
\* Cap on number_of_scan_failures.
MaxFailures == 2

\* ---------------------------------------------------------------- Python text primitives

\* Python's None where a string is expected: a value no text equals.
NoneStr == <<"None">>

WhitespaceChars == {" ", "\t"}

\* str.lower() on one character (the upper-case letters the model uses).
LowerChar(c) ==
    CASE c = "P" -> "p"
      [] c = "Y" -> "y"
      [] c = "M" -> "m"
      [] c = "L" -> "l"
      [] c = "D" -> "d"
      [] c = "N" -> "n"
      [] c = "A" -> "a"
      [] c = "Z" -> "z"
      [] OTHER -> c

\* str.lower()
Lower(s) == [i \in 1..Len(s) |-> LowerChar(s[i])]

\* Python slice s[lo:hi] (0-based, negative indexes count from the end, clamped).
PySlice(s, lo, hi) ==
    LET n == Len(s)
        norm(i) == IF i < 0 THEN (IF n + i < 0 THEN 0 ELSE n + i)
                   ELSE (IF i > n THEN n ELSE i)
        a == norm(lo)
        b == norm(hi)
    IN  IF a >= b THEN <<>> ELSE SubSeq(s, a + 1, b)

\* Python slice s[lo:]
PyFrom(s, lo) == PySlice(s, lo, Len(s))

\* str.startswith
StartsWith(s, p) == Len(s) >= Len(p) /\ SubSeq(s, 1, Len(p)) = p

\* str.endswith
EndsWith(s, p) == Len(s) >= Len(p) /\ SubSeq(s, Len(s) - Len(p) + 1, Len(s)) = p

\* str.rstrip()
RECURSIVE RStrip(_)
RStrip(s) ==
    IF Len(s) > 0 /\ s[Len(s)] \in WhitespaceChars
    THEN RStrip(SubSeq(s, 1, Len(s) - 1))
    ELSE s

\* str.lstrip()
RECURSIVE LStrip(_)
LStrip(s) ==
    IF Len(s) > 0 /\ s[1] \in WhitespaceChars THEN LStrip(Tail(s)) ELSE s

\* str.strip()
Strip(s) == LStrip(RStrip(s))

\* str.split(","): the pieces between the commas, empty pieces kept.
RECURSIVE SplitFrom(_, _, _)
SplitFrom(s, i, cur) ==
    IF i > Len(s) THEN <<cur>>
    ELSE IF s[i] = "," THEN <<cur>> \o SplitFrom(s, i + 1, <<>>)
    ELSE SplitFrom(s, i + 1, Append(cur, s[i]))

SplitComma(s) == SplitFrom(s, 1, <<>>)

\* ParserHelper.extract_spaces(source, start): (index, text) of the run of
\* space characters starting at the 0-based index start; (None, None), here
\* <<-1, NoneStr>>, when start is outside the string.
RECURSIVE SkipWhile(_, _, _)
SkipWhile(s, i, isSpace) ==
    IF i < Len(s) /\ ((s[i + 1] = " ") = isSpace)
    THEN SkipWhile(s, i + 1, isSpace)
    ELSE i

extract_spaces(source_string, start_index) ==
    IF ~(0 <= start_index /\ start_index <= Len(source_string))
    THEN <<-1, NoneStr>>
    ELSE LET index == SkipWhile(source_string, start_index, TRUE)
         IN  <<index, PySlice(source_string, start_index, index)>>

\* ParserHelper.extract_until_spaces(source, start): (index, text) of the run
\* of non-space characters starting at start.
extract_until_spaces(source_string, start_index) ==
    IF ~(0 <= start_index /\ start_index <= Len(source_string))
    THEN <<-1, NoneStr>>
    ELSE LET index == SkipWhile(source_string, start_index, FALSE)
         IN  <<index, PySlice(source_string, start_index, index)>>

\* ---------------------------------------------------------------- PragmaToken constants

pragma_prefix == <<"<", "!", "-", "-">>
pragma_alternate_prefix == <<"<", "!", "-", "-", "-">>
pragma_title == <<"p", "y", "m", "l", " ">>
pragma_suffix == <<"-", "-", ">">>

\* ---------------------------------------------------------------- dictionaries

\* pragma_lines is a Python dict: a sequence of <<key, value>> pairs in
\* insertion order, one pair per key.
DictKeys(d) == {d[i][1] : i \in 1..Len(d)}

DictGet(d, k) == d[CHOOSE i \in 1..Len(d) : d[i][1] = k][2]

\* d[k] = v : an existing key keeps its position, a new key is appended.
DictSet(d, k, v) ==
    IF k \in DictKeys(d)
    THEN [i \in 1..Len(d) |-> IF d[i][1] = k THEN <<k, v>> ELSE d[i]]
    ELSE Append(d, <<k, v>>)

\* document_pragmas is a dict from line number to a set of ids; its order is
\* never observed, so it is a function on its key set.
TableSet(t, k, v) == [x \in (DOMAIN t) \cup {k} |-> IF x = k THEN v ELSE t[x]]

EmptyTable == [x \in {} |-> {}]

\* ---------------------------------------------------------------- inputs

\* The line texts handed to look_for_pragmas.
\* <!-- pyml disable-next-line m1 -->  (one registered id)
LineStdOne ==
    <<"<", "!", "-", "-", " ", "p", "y", "m", "l", " ", "d", "i", "s", "a", "b", "l", "e", "-", "n", "e", "x", "t", "-", "l", "i", "n", "e", " ", "m", "1", " ", "-", "-", ">">>
\* <!-- pyml Disable-Next-Line AA, zz -->  (mixed case command, an alias and an unknown id)
LineStdMixed ==
    <<"<", "!", "-", "-", " ", "p", "y", "m", "l", " ", "D", "i", "s", "a", "b", "l", "e", "-", "N", "e", "x", "t", "-", "L", "i", "n", "e", " ", "A", "A", ",", " ", "z", "z", " ", "-", "-", ">">>
\* <!-- pyml disable-next-line zz -->  (only an unknown id)
LineStdUnknown ==
    <<"<", "!", "-", "-", " ", "p", "y", "m", "l", " ", "d", "i", "s", "a", "b", "l", "e", "-", "n", "e", "x", "t", "-", "l", "i", "n", "e", " ", "z", "z", " ", "-", "-", ">">>
\* <!-- pyml disable-next-line m1,,bb -->  (a blank id between an id and an alias)
LineStdBlankMid ==
    <<"<", "!", "-", "-", " ", "p", "y", "m", "l", " ", "d", "i", "s", "a", "b", "l", "e", "-", "n", "e", "x", "t", "-", "l", "i", "n", "e", " ", "m", "1", ",", ",", "b", "b", " ", "-", "-", ">">>
\* <!-- pyml disable-next-line zz,m2,zz -->  (an unknown id twice, around a registered one)
LineStdUnknownTwice ==
    <<"<", "!", "-", "-", " ", "p", "y", "m", "l", " ", "d", "i", "s", "a", "b", "l", "e", "-", "n", "e", "x", "t", "-", "l", "i", "n", "e", " ", "z", "z", ",", "m", "2", ",", "z", "z", " ", "-", "-", ">">>
\* <!-- pyml -->  (no command)
LineStdNoCommand ==
    <<"<", "!", "-", "-", " ", "p", "y", "m", "l", " ", "-", "-", ">">>
\* <!-- pyml enable m1 -->  (a command other than disable-next-line)
LineStdOtherCommand ==
    <<"<", "!", "-", "-", " ", "p", "y", "m", "l", " ", "e", "n", "a", "b", "l", "e", " ", "m", "1", " ", "-", "-", ">">>
\* <!-- pyml  disable-next-line m1 -->  (two spaces between the title and the command)
LineStdTwoSpaces ==
    <<"<", "!", "-", "-", " ", "p", "y", "m", "l", " ", " ", "d", "i", "s", "a", "b", "l", "e", "-", "n", "e", "x", "t", "-", "l", "i", "n", "e", " ", "m", "1", " ", "-", "-", ">">>
\* <!-- pyml disable-next-line -->  (disable-next-line with no id list)
LineStdNoIds ==
    <<"<", "!", "-", "-", " ", "p", "y", "m", "l", " ", "d", "i", "s", "a", "b", "l", "e", "-", "n", "e", "x", "t", "-", "l", "i", "n", "e", " ", "-", "-", ">">>
\* <!--- pyml disable-next-line m2 -->  (alternate prefix, one registered id)
LineAltOne ==
    <<"<", "!", "-", "-", "-", " ", "p", "y", "m", "l", " ", "d", "i", "s", "a", "b", "l", "e", "-", "n", "e", "x", "t", "-", "l", "i", "n", "e", " ", "m", "2", " ", "-", "-", ">">>
\* <!--- pyml disable-next-line zz,aa,m1 -->  (alternate prefix, unknown id, alias and id of one plugin)
LineAltSamePlugin ==
    <<"<", "!", "-", "-", "-", " ", "p", "y", "m", "l", " ", "d", "i", "s", "a", "b", "l", "e", "-", "n", "e", "x", "t", "-", "l", "i", "n", "e", " ", "z", "z", ",", "a", "a", ",", "m", "1", " ", "-", "-", ">">>
\* <!--- pyml -->  (alternate prefix, no command)
LineAltNoCommand ==
    <<"<", "!", "-", "-", "-", " ", "p", "y", "m", "l", " ", "-", "-", ">">>
\* <!--- pyml disable m2 -->  (alternate prefix, another command)
LineAltOtherCommand ==
    <<"<", "!", "-", "-", "-", " ", "p", "y", "m", "l", " ", "d", "i", "s", "a", "b", "l", "e", " ", "m", "2", " ", "-", "-", ">">>
\* <!--pyml disable-next-line m2-->  (no space after the prefix nor before the suffix)
LineStdTight ==
    <<"<", "!", "-", "-", "p", "y", "m", "l", " ", "d", "i", "s", "a", "b", "l", "e", "-", "n", "e", "x", "t", "-", "l", "i", "n", "e", " ", "m", "2", "-", "-", ">">>
\* <!--  PYML Disable-Next-Line aa -->\t   (upper case title, trailing whitespace)
LineStdUpper ==
    <<"<", "!", "-", "-", " ", " ", "P", "Y", "M", "L", " ", "D", "i", "s", "a", "b", "l", "e", "-", "N", "e", "x", "t", "-", "L", "i", "n", "e", " ", "a", "a", " ", "-", "-", ">", "\t", " ">>
\* <!- pyml disable-next-line m1 -->  (not a comment prefix)
LineShortPrefix ==
    <<"<", "!", "-", " ", "p", "y", "m", "l", " ", "d", "i", "s", "a", "b", "l", "e", "-", "n", "e", "x", "t", "-", "l", "i", "n", "e", " ", "m", "1", " ", "-", "-", ">">>
\* <!-- pyml disable-next-line m1 ->  (no closing token)
LineBadSuffix ==
    <<"<", "!", "-", "-", " ", "p", "y", "m", "l", " ", "d", "i", "s", "a", "b", "l", "e", "-", "n", "e", "x", "t", "-", "l", "i", "n", "e", " ", "m", "1", " ", "-", ">">>
\*  <!-- pyml disable-next-line m1 -->  (leading space in the line text)
LineIndented ==
    <<" ", "<", "!", "-", "-", " ", "p", "y", "m", "l", " ", "d", "i", "s", "a", "b", "l", "e", "-", "n", "e", "x", "t", "-", "l", "i", "n", "e", " ", "m", "1", " ", "-", "-", ">">>
\* <!--\tpyml disable-next-line m1 -->  (a tab between prefix and title)
LineTabGap ==
    <<"<", "!", "-", "-", "\t", "p", "y", "m", "l", " ", "d", "i", "s", "a", "b", "l", "e", "-", "n", "e", "x", "t", "-", "l", "i", "n", "e", " ", "m", "1", " ", "-", "-", ">">>
\* plain text  (ordinary text)
LinePlain ==
    <<"p", "l", "a", "i", "n", " ", "t", "e", "x", "t">>

Lines ==
    {LineStdOne,
     LineStdMixed,
     LineStdUnknown,
     LineStdBlankMid,
     LineStdUnknownTwice,
     LineStdNoCommand,
     LineStdOtherCommand,
     LineStdTwoSpaces,
     LineStdNoIds,
     LineAltOne,
     LineAltSamePlugin,
     LineAltNoCommand,
     LineAltOtherCommand,
     LineStdTight,
     LineStdUpper,
     LineShortPrefix,
     LineBadSuffix,
     LineIndented,
     LineTabGap,
     LinePlain}

\* ---------------------------------------------------------------- rule registry

\* all_ids: the registry's table from an id or an alias (lower case) to the
\* plugin found under it; two plugins, each with one alias.
IdM1 == <<"m", "1">>
IdM2 == <<"m", "2">>
AliasM1 == <<"a", "a">>
AliasM2 == <<"b", "b">>

AllIds ==
    [k \in {IdM1, IdM2, AliasM1, AliasM2} |->
        [plugin_id |-> IF k \in {IdM1, AliasM1} THEN IdM1 ELSE IdM2]]

scan_file == "doc.md"

\* ---------------------------------------------------------------- directive errors

\* What log_pragma_failure is called with: (scan_file, line, message). The
\* message is kept as its fixed wording plus the texts formatted into it.
CommandName == <<"d", "i", "s", "a", "b", "l", "e", "-", "n", "e", "x", "t", "-", "l", "i", "n", "e">>

NoCommandWording == "Inline configuration specified without command."
NotUnderstoodWording == "Inline configuration command '{command}' not understood."
BlankIdWording == "Inline configuration command '{command}' specified a plugin with a blank id."
UnknownIdWording == "Inline configuration command '{command}' unable to find a plugin with the id '{next_id}'."

Failure(file, line, wording, command, id) ==
    [file |-> file, line |-> line, wording |-> wording, command |-> command, id |-> id]

\* ---------------------------------------------------------------- look_for_pragmas

\* "not x" for an Optional[str]
IsFalsyText(x) == x = NoneStr \/ x = <<>>

\* look_for_pragmas as it would be with the extended prefix keyed like the
\* standard one.
look_for_pragmas_unsigned(line_number, line_to_parse, container_depth, extracted_whitespace, pragma_lines) ==
    IF /\ container_depth = 0
       /\ IsFalsyText(extracted_whitespace)
       /\ \/ StartsWith(line_to_parse, pragma_prefix)
          \/ StartsWith(line_to_parse, pragma_alternate_prefix)
    THEN LET was_extended_prefix == StartsWith(line_to_parse, pragma_alternate_prefix)
             start_index ==
                 extract_spaces(
                     line_to_parse,
                     Len(IF was_extended_prefix
                         THEN pragma_alternate_prefix
                         ELSE pragma_prefix))[1]
             remaining_line == Lower(RStrip(PyFrom(line_to_parse, start_index)))
         IN  IF /\ StartsWith(remaining_line, pragma_title)
                /\ EndsWith(remaining_line, pragma_suffix)
             THEN [result |-> TRUE,
                   pragma_lines |-> DictSet(pragma_lines, line_number, line_to_parse)]
             ELSE [result |-> FALSE, pragma_lines |-> pragma_lines]
    ELSE [result |-> FALSE, pragma_lines |-> pragma_lines]

\* look_for_pragmas as it would be without the test of the leading whitespace.
look_for_pragmas_any_indent(line_number, line_to_parse, container_depth, extracted_whitespace, pragma_lines) ==
    IF /\ container_depth = 0
       /\ \/ StartsWith(line_to_parse, pragma_prefix)
          \/ StartsWith(line_to_parse, pragma_alternate_prefix)
    THEN LET was_extended_prefix == StartsWith(line_to_parse, pragma_alternate_prefix)
             start_index ==
                 extract_spaces(
                     line_to_parse,
                     Len(IF was_extended_prefix
                         THEN pragma_alternate_prefix
                         ELSE pragma_prefix))[1]
             remaining_line == Lower(RStrip(PyFrom(line_to_parse, start_index)))
         IN  IF /\ StartsWith(remaining_line, pragma_title)
                /\ EndsWith(remaining_line, pragma_suffix)
             THEN LET index_number ==
                          IF was_extended_prefix THEN -line_number ELSE line_number
                  IN  [result |-> TRUE,
                       pragma_lines |-> DictSet(pragma_lines, index_number, line_to_parse)]
             ELSE [result |-> FALSE, pragma_lines |-> pragma_lines]
    ELSE [result |-> FALSE, pragma_lines |-> pragma_lines]

\* look_for_pragmas as it would be if it stored the folded, trimmed text it
\* matched instead of the raw line.
look_for_pragmas_stores_folded(line_number, line_to_parse, container_depth, extracted_whitespace, pragma_lines) ==
    IF /\ container_depth = 0
       /\ IsFalsyText(extracted_whitespace)
       /\ \/ StartsWith(line_to_parse, pragma_prefix)
          \/ StartsWith(line_to_parse, pragma_alternate_prefix)
    THEN LET was_extended_prefix == StartsWith(line_to_parse, pragma_alternate_prefix)
             used_prefix == IF was_extended_prefix
                            THEN pragma_alternate_prefix
                            ELSE pragma_prefix
             start_index == extract_spaces(line_to_parse, Len(used_prefix))[1]
             remaining_line == Lower(RStrip(PyFrom(line_to_parse, start_index)))
         IN  IF /\ StartsWith(remaining_line, pragma_title)
                /\ EndsWith(remaining_line, pragma_suffix)
             THEN LET index_number ==
                          IF was_extended_prefix THEN -line_number ELSE line_number
                  IN  [result |-> TRUE,
                       pragma_lines |->
                           DictSet(pragma_lines, index_number, used_prefix \o remaining_line)]
             ELSE [result |-> FALSE, pragma_lines |-> pragma_lines]
    ELSE [result |-> FALSE, pragma_lines |-> pragma_lines]

\* PragmaExtension.look_for_pragmas: the value returned and the pragma map
\* (parser_properties.pragma_lines) after the call.
look_for_pragmas(line_number, line_to_parse, container_depth, extracted_whitespace, pragma_lines) ==
    IF /\ container_depth = 0
       /\ IsFalsyText(extracted_whitespace)
       /\ \/ StartsWith(line_to_parse, pragma_prefix)
          \/ StartsWith(line_to_parse, pragma_alternate_prefix)
    THEN LET was_extended_prefix == StartsWith(line_to_parse, pragma_alternate_prefix)
             start_index ==
                 extract_spaces(
                     line_to_parse,
                     Len(IF was_extended_prefix
                         THEN pragma_alternate_prefix
                         ELSE pragma_prefix))[1]
             remaining_line == Lower(RStrip(PyFrom(line_to_parse, start_index)))
         IN  IF /\ StartsWith(remaining_line, pragma_title)
                /\ EndsWith(remaining_line, pragma_suffix)
             THEN LET index_number ==
                          IF was_extended_prefix THEN -line_number ELSE line_number
                  IN  [result |-> TRUE,
                       pragma_lines |-> DictSet(pragma_lines, index_number, line_to_parse)]
             ELSE [result |-> FALSE, pragma_lines |-> pragma_lines]
    ELSE [result |-> FALSE, pragma_lines |-> pragma_lines]

\* ---------------------------------------------------------------- __handle_disable_next_line

\* The loop as it would be if an unknown id ended it.
RECURSIVE DisableLoop_stop_at_unknown(_, _, _, _, _, _, _)
DisableLoop_stop_at_unknown(ids_to_disable, i, processed_ids, errors, actual_line_number, all_ids, command) ==
    IF i > Len(ids_to_disable)
    THEN [processed_ids |-> processed_ids, errors |-> errors]
    ELSE LET next_id == Lower(Strip(ids_to_disable[i]))
         IN  IF next_id = <<>>
             THEN DisableLoop_stop_at_unknown(ids_to_disable, i + 1, processed_ids,
                      Append(errors,
                          Failure(scan_file, actual_line_number, BlankIdWording, command, <<>>)),
                      actual_line_number, all_ids, command)
             ELSE IF next_id \in DOMAIN all_ids
             THEN DisableLoop_stop_at_unknown(ids_to_disable, i + 1,
                      processed_ids \cup {all_ids[next_id].plugin_id},
                      errors, actual_line_number, all_ids, command)
             ELSE [processed_ids |-> processed_ids,
                   errors |-> Append(errors,
                       Failure(scan_file, actual_line_number, UnknownIdWording, command, next_id))]

\* The loop as it would be if it kept the token as written instead of the
\* plugin's id.
RECURSIVE DisableLoop_keeps_token(_, _, _, _, _, _, _)
DisableLoop_keeps_token(ids_to_disable, i, processed_ids, errors, actual_line_number, all_ids, command) ==
    IF i > Len(ids_to_disable)
    THEN [processed_ids |-> processed_ids, errors |-> errors]
    ELSE LET next_id == Lower(Strip(ids_to_disable[i]))
         IN  IF next_id = <<>>
             THEN DisableLoop_keeps_token(ids_to_disable, i + 1, processed_ids,
                      Append(errors,
                          Failure(scan_file, actual_line_number, BlankIdWording, command, <<>>)),
                      actual_line_number, all_ids, command)
             ELSE IF next_id \in DOMAIN all_ids
             THEN DisableLoop_keeps_token(ids_to_disable, i + 1,
                      processed_ids \cup {next_id},
                      errors, actual_line_number, all_ids, command)
             ELSE DisableLoop_keeps_token(ids_to_disable, i + 1, processed_ids,
                      Append(errors,
                          Failure(scan_file, actual_line_number, UnknownIdWording, command, next_id)),
                      actual_line_number, all_ids, command)

\* The loop over ids_to_disable: i is the next position, processed_ids and
\* errors are the values accumulated so far.
RECURSIVE DisableLoop(_, _, _, _, _, _, _)
DisableLoop(ids_to_disable, i, processed_ids, errors, actual_line_number, all_ids, command) ==
    IF i > Len(ids_to_disable)
    THEN [processed_ids |-> processed_ids, errors |-> errors]
    ELSE LET next_id == Lower(Strip(ids_to_disable[i]))
         IN  IF next_id = <<>>
             THEN DisableLoop(ids_to_disable, i + 1, processed_ids,
                      Append(errors,
                          Failure(scan_file, actual_line_number, BlankIdWording, command, <<>>)),
                      actual_line_number, all_ids, command)
             ELSE IF next_id \in DOMAIN all_ids
             THEN DisableLoop(ids_to_disable, i + 1,
                      processed_ids \cup {all_ids[next_id].plugin_id},
                      errors, actual_line_number, all_ids, command)
             ELSE DisableLoop(ids_to_disable, i + 1, processed_ids,
                      Append(errors,
                          Failure(scan_file, actual_line_number, UnknownIdWording, command, next_id)),
                      actual_line_number, all_ids, command)

\* __handle_disable_next_line as it would be if it keyed the entry by the
\* directive's own line.
handle_disable_next_line_same_line(command_data, after_command_index, errors, actual_line_number, document_pragmas, all_ids, command) ==
    LET ids_to_disable == SplitComma(PyFrom(command_data, after_command_index))
        done == DisableLoop(ids_to_disable, 1, {}, errors, actual_line_number, all_ids, command)
    IN  [document_pragmas |->
             IF done.processed_ids # {}
             THEN TableSet(document_pragmas, actual_line_number, done.processed_ids)
             ELSE document_pragmas,
         errors |-> done.errors,
         raised |-> FALSE]

\* __handle_disable_next_line as it would be if it wrote the entry whether or
\* not an id was resolved.
handle_disable_next_line_writes_always(command_data, after_command_index, errors, actual_line_number, document_pragmas, all_ids, command) ==
    LET ids_to_disable == SplitComma(PyFrom(command_data, after_command_index))
        done == DisableLoop(ids_to_disable, 1, {}, errors, actual_line_number, all_ids, command)
    IN  [document_pragmas |->
             TableSet(document_pragmas, actual_line_number + 1, done.processed_ids),
         errors |-> done.errors,
         raised |-> FALSE]

\* __handle_disable_next_line as it would be if it added to the entry already
\* there.
handle_disable_next_line_union(command_data, after_command_index, errors, actual_line_number, document_pragmas, all_ids, command) ==
    LET ids_to_disable == SplitComma(PyFrom(command_data, after_command_index))
        done == DisableLoop(ids_to_disable, 1, {}, errors, actual_line_number, all_ids, command)
        already == IF actual_line_number + 1 \in DOMAIN document_pragmas
                   THEN document_pragmas[actual_line_number + 1]
                   ELSE {}
    IN  [document_pragmas |->
             IF done.processed_ids # {}
             THEN TableSet(document_pragmas, actual_line_number + 1,
                           already \cup done.processed_ids)
             ELSE document_pragmas,
         errors |-> done.errors,
         raised |-> FALSE]

\* __handle_disable_next_line as it would be if it keyed the entry two lines
\* after the directive.
handle_disable_next_line_line_after_next(command_data, after_command_index, errors, actual_line_number, document_pragmas, all_ids, command) ==
    LET ids_to_disable == SplitComma(PyFrom(command_data, after_command_index))
        done == DisableLoop(ids_to_disable, 1, {}, errors, actual_line_number, all_ids, command)
    IN  [document_pragmas |->
             IF done.processed_ids # {}
             THEN TableSet(document_pragmas, actual_line_number + 2, done.processed_ids)
             ELSE document_pragmas,
         errors |-> done.errors,
         raised |-> FALSE]

\* PragmaExtension.__handle_disable_next_line: the suppression table and the
\* callback's calls after it.
handle_disable_next_line(command_data, after_command_index, errors, actual_line_number, document_pragmas, all_ids, command) ==
    LET ids_to_disable == SplitComma(PyFrom(command_data, after_command_index))
        done == DisableLoop(ids_to_disable, 1, {}, errors, actual_line_number, all_ids, command)
    IN  [document_pragmas |->
             IF done.processed_ids # {}
             THEN TableSet(document_pragmas, actual_line_number + 1, done.processed_ids)
             ELSE document_pragmas,
         errors |-> done.errors,
         raised |-> FALSE]

\* ---------------------------------------------------------------- compile_single_pragma

\* The prefix length as it would be if the key's sign were not looked at.
prefix_length_standard_only(next_line_number) == Len(pragma_prefix)

\* The source line as it would be if a negative key were not negated.
actual_line_number_signed(next_line_number) == next_line_number

\* The prefix length and the source line a signed key stands for.
prefix_length(next_line_number) ==
    IF next_line_number > 0 THEN Len(pragma_prefix) ELSE Len(pragma_alternate_prefix)

actual_line_number(next_line_number) ==
    IF next_line_number > 0 THEN next_line_number ELSE -next_line_number

\* The text between the title and the closing token of a stored line.
command_data(next_line_number, pragma_lines) ==
    LET line_after_prefix ==
            RStrip(PyFrom(DictGet(pragma_lines, next_line_number),
                          prefix_length(next_line_number)))
        after_whitespace_index == extract_spaces(line_after_prefix, 0)[1]
    IN  PySlice(line_after_prefix,
                after_whitespace_index + Len(pragma_title),
                -Len(pragma_suffix))

\* compile_single_pragma as it would be if a missing command were passed over
\* in silence.
compile_single_pragma_silent(next_line_number, pragma_lines, all_ids, document_pragmas, errors) ==
    LET data == command_data(next_line_number, pragma_lines)
        extracted == extract_until_spaces(data, 0)
        after_command_index == extracted[1]
        command == Lower(extracted[2])
        line == actual_line_number(next_line_number)
    IN  IF command = <<>>
        THEN [document_pragmas |-> document_pragmas, errors |-> errors, raised |-> FALSE]
        ELSE IF command = CommandName
        THEN handle_disable_next_line(data, after_command_index, errors, line,
                                      document_pragmas, all_ids, command)
        ELSE [document_pragmas |-> document_pragmas,
              errors |-> Append(errors,
                  Failure(scan_file, line, NotUnderstoodWording, command, <<>>)),
              raised |-> FALSE]

\* PragmaExtension.compile_single_pragma: the suppression table and the
\* callback's calls after it; raised is TRUE when an assertion fails.
compile_single_pragma(next_line_number, pragma_lines, all_ids, document_pragmas, errors) ==
    LET line_after_prefix ==
            RStrip(PyFrom(DictGet(pragma_lines, next_line_number),
                          prefix_length(next_line_number)))
        after_whitespace_index == extract_spaces(line_after_prefix, 0)[1]
        data == command_data(next_line_number, pragma_lines)
        extracted == extract_until_spaces(data, 0)
        after_command_index == extracted[1]
        command == Lower(extracted[2])
        line == actual_line_number(next_line_number)
    IN  IF after_whitespace_index = -1 \/ extracted[2] = NoneStr \/ after_command_index = -1
        THEN [document_pragmas |-> document_pragmas, errors |-> errors, raised |-> TRUE]
        ELSE IF command = <<>>
        THEN [document_pragmas |-> document_pragmas,
              errors |-> Append(errors,
                  Failure(scan_file, line, NoCommandWording, <<>>, <<>>)),
              raised |-> FALSE]
        ELSE IF command = CommandName
        THEN handle_disable_next_line(data, after_command_index, errors, line,
                                      document_pragmas, all_ids, command)
        ELSE [document_pragmas |-> document_pragmas,
              errors |-> Append(errors,
                  Failure(scan_file, line, NotUnderstoodWording, command, <<>>)),
              raised |-> FALSE]


\* ---------------------------------------------------------------- PragmaToken

DigitChars == <<"0", "1", "2", "3", "4", "5", "6", "7", "8", "9">>

\* str(n) for an int n, as the f-string formats a key.
RECURSIVE NatToStr(_)
NatToStr(n) ==
    IF n < 10 THEN <<DigitChars[n + 1]>>
    ELSE Append(NatToStr(n \div 10), DigitChars[(n % 10) + 1])

IntToStr(n) == IF n < 0 THEN <<"-">> \o NatToStr(-n) ELSE NatToStr(n)

\* "".join(f";{key}:{pragma_lines[key]}" for key in pragma_lines): the
\* entries from position i on, in the dict's iteration order.
RECURSIVE serialized_pragmas(_, _)
serialized_pragmas(pragma_lines, i) ==
    IF i > Len(pragma_lines) THEN <<>>
    ELSE <<";">> \o IntToStr(pragma_lines[i][1]) \o <<":">> \o pragma_lines[i][2]
         \o serialized_pragmas(pragma_lines, i + 1)

\* The dict's pairs in ascending order of the key.
RECURSIVE SortedByKey(_)
SortedByKey(d) ==
    IF d = <<>> THEN <<>>
    ELSE LET least == CHOOSE i \in 1..Len(d) : \A j \in 1..Len(d) : d[i][1] <= d[j][1]
             rest == [j \in 1..(Len(d) - 1) |-> IF j < least THEN d[j] ELSE d[j + 1]]
         IN  <<d[least]>> \o SortedByKey(rest)

\* PragmaToken.__init__ as it would be without the [1:] that drops the
\* leading separator.
PragmaToken_unstripped(pragma_lines) ==
    [pragma_lines |-> pragma_lines,
     extra_data |-> serialized_pragmas(pragma_lines, 1)]

\* PragmaToken.__init__ as it would be if it walked the keys in sorted order.
PragmaToken_sorted(pragma_lines) ==
    [pragma_lines |-> pragma_lines,
     extra_data |-> PyFrom(serialized_pragmas(SortedByKey(pragma_lines), 1), 1)]

\* PragmaToken.__init__: the token's pragma_lines and its extra_data.
PragmaToken(pragma_lines) ==
    [pragma_lines |-> pragma_lines,
     extra_data |-> PyFrom(serialized_pragmas(pragma_lines, 1), 1)]

\* ---------------------------------------------------------------- state

VARIABLES
    phase,             \* "raw": lines are being read; "compile": the pragmas are
                       \* being compiled; "raised": an assertion failed
    marker_line_number, \* position_marker.line_number of the line read next
    pragma_lines,      \* parser_properties.pragma_lines
    document_pragmas,  \* the suppression table
    errors,            \* the calls made to log_pragma_failure, in order
    compiled,          \* the signed keys compile_single_pragma was called with
    last,              \* the last call: its arguments, its result and the state before it
    pragma_token,      \* the PragmaToken built from the pragma map, or NoToken
    \* main.py
    x_test_scan_fault, \* args.x_test_scan_fault
    files_to_scan,     \* the sorted list of files, here their numbers
    file_index,        \* position of next_file in files_to_scan
    pc,                \* the statement of main / __scan_file run next
    file_lines,        \* the physical lines of next_file, as a line source yields them
    source_provider,   \* the open line source: its cursor, or NoProvider
    line_number,       \* __scan_file's line_number
    next_line,         \* __scan_file's next_line: <<text>>, or <<>> for None
    actual_tokens,     \* the tokenizer's output for next_file
    token_index,       \* how many of actual_tokens the for loop has taken
    events,            \* the calls __scan_file has made for next_file, in order
    started,           \* the files starting_new_file was called for, in order
    number_of_scan_failures, \* the registry's run-wide count
    raised,            \* the exception in flight out of __scan_file, or "none"
    setup_error,       \* the exception raised while main set up the run, or "none"
    exit_code          \* -1 while running, else the status the run ended with

pragma_vars ==
    <<phase, marker_line_number, pragma_lines, document_pragmas, errors, compiled, last,
      pragma_token>>

scan_vars ==
    <<x_test_scan_fault, files_to_scan, file_index, pc, file_lines, source_provider,
      line_number, next_line, actual_tokens, token_index, events, started,
      number_of_scan_failures, raised, setup_error, exit_code>>

vars == <<pragma_vars, scan_vars>>

NoCall ==
    [op |-> "none", key |-> 0, line |-> <<>>, depth |-> 0, ws |-> <<>>, ret |-> FALSE,
     pl_before |-> <<>>, dp_before |-> EmptyTable, err_before |-> 0]

\* No PragmaToken has been built.
NoToken == [pragma_lines |-> <<>>, extra_data |-> NoneStr]

\* The values extracted_whitespace takes: None, no whitespace, one space.
Whitespaces == {NoneStr, <<>>, <<" ">>}

\* main's state while no run is under way.
ScanIdle ==
    /\ x_test_scan_fault = FALSE
    /\ files_to_scan = <<>>
    /\ file_index = 1
    /\ pc = "idle"
    /\ file_lines = <<>>
    /\ source_provider = [open |-> FALSE, pos |-> 0]
    /\ line_number = 1
    /\ next_line = <<>>
    /\ actual_tokens = <<>>
    /\ token_index = 0
    /\ events = <<>>
    /\ started = <<>>
    /\ number_of_scan_failures = 0
    /\ raised = "none"
    /\ setup_error = "none"
    /\ exit_code = -1

PragmaInit ==
    /\ ScanIdle
    /\ phase = "raw"
    /\ marker_line_number = 1
    /\ pragma_lines = <<>>
    /\ document_pragmas = EmptyTable
    /\ errors = <<>>
    /\ compiled = {}
    /\ last = NoCall
    /\ pragma_token = NoToken

\* The parser reads the next physical line and calls look_for_pragmas on it.
LookForPragmas ==
    /\ phase = "raw"
    /\ marker_line_number <= MaxPragmaLines
    /\ \E line \in Lines, depth \in 0..MaxDepth, ws \in Whitespaces :
          LET r == look_for_pragmas(marker_line_number, line, depth, ws, pragma_lines)
          IN  /\ pragma_lines' = r.pragma_lines
              /\ last' = [op |-> "look", key |-> marker_line_number, line |-> line,
                          depth |-> depth, ws |-> ws, ret |-> r.result,
                          pl_before |-> pragma_lines, dp_before |-> document_pragmas,
                          err_before |-> Len(errors)]
    /\ marker_line_number' = marker_line_number + 1
    /\ UNCHANGED <<phase, document_pragmas, errors, compiled, pragma_token, scan_vars>>

\* The lines are exhausted: the PragmaToken of the document is built from the
\* pragma map, and the pragmas found are compiled next.
EndOfLines ==
    /\ phase = "raw"
    /\ phase' = "compile"
    /\ last' = NoCall
    /\ pragma_token' = PragmaToken(pragma_lines)
    /\ UNCHANGED <<marker_line_number, pragma_lines, document_pragmas, errors, compiled, scan_vars>>

\* compile_single_pragma is called once for a key of the pragma map.
CompileSinglePragma ==
    /\ phase = "compile"
    /\ \E k \in DictKeys(pragma_lines) \ compiled :
          LET r == compile_single_pragma(k, pragma_lines, AllIds, document_pragmas, errors)
          IN  /\ document_pragmas' = r.document_pragmas
              /\ errors' = r.errors
              /\ phase' = IF r.raised THEN "raised" ELSE phase
              /\ compiled' = compiled \cup {k}
              /\ last' = [op |-> "compile", key |-> k, line |-> DictGet(pragma_lines, k),
                          depth |-> 0, ws |-> <<>>, ret |-> ~r.raised,
                          pl_before |-> pragma_lines, dp_before |-> document_pragmas,
                          err_before |-> Len(errors)]
    /\ UNCHANGED <<marker_line_number, pragma_lines, pragma_token, scan_vars>>

PragmaNext == LookForPragmas \/ EndOfLines \/ CompileSinglePragma

PragmaSpec == PragmaInit /\ [][PragmaNext]_vars


\* ---------------------------------------------------------------- compile_single_pragma on any map

\* compile_single_pragma is a static method: its caller hands it the pragma
\* map. The maps below are the ones whose every entry look_for_pragmas could
\* have stored under its key (standard spelling under +n, alternate spelling
\* under -n), among them maps that hold both +n and -n.
StdTexts == {LineStdOne, LineStdUnknown, LineStdNoIds}

AltTexts == {LineAltOne}

RECURSIVE CompileMapsUpTo(_)
CompileMapsUpTo(n) ==
    IF n = 0
    THEN {<<>>}
    ELSE {m \o std \o alt :
              m \in CompileMapsUpTo(n - 1),
              std \in {<<>>} \cup {<< <<n, t>> >> : t \in StdTexts},
              alt \in {<<>>} \cup {<< <<-n, t>> >> : t \in AltTexts}}

CompileInit ==
    /\ ScanIdle
    /\ phase = "compile"
    /\ marker_line_number = MaxPragmaLines + 1
    /\ pragma_lines \in CompileMapsUpTo(MaxPragmaLines)
    /\ document_pragmas = EmptyTable
    /\ errors = <<>>
    /\ compiled = {}
    /\ last = NoCall
    /\ pragma_token = NoToken

CompileNext == CompileSinglePragma

CompileSpec == CompileInit /\ [][CompileNext]_vars


\* ---------------------------------------------------------------- main.py: inputs

\* All sequences over S of length at most n.
SeqsUpTo(S, n) == UNION {[1..k -> S] : k \in 0..n}

\* The lines a file may hold and the tokens the tokenizer may return.
FileLineTexts == {LineStdOne, LinePlain}
FileContents == SeqsUpTo(FileLineTexts, MaxFileLines)
TokenKinds == {"para", "blank"}
TokenStreams == SeqsUpTo(TokenKinds, MaxTokens)

\* What a hook call does: return, report a violation to the registry and
\* return, or raise BadPluginError.
HookOutcomes == {"ok", "violation", "raise"}

\* ---------------------------------------------------------------- main.py: line source

\* source_provider = None
NoProvider == [open |-> FALSE, pos |-> 0]

\* FileSourceProvider(next_file): a cursor before the first line.
FileSourceProvider == [open |-> TRUE, pos |-> 0]

\* source_provider.get_next_line(): <<text>> of the line under the cursor, or
\* <<>> (None) past the last one.
get_next_line(provider, lines) ==
    IF provider.pos < Len(lines) THEN <<lines[provider.pos + 1]>> ELSE <<>>

\* The provider after get_next_line().
advance(provider, lines) ==
    IF provider.pos < Len(lines)
    THEN [provider EXCEPT !.pos = provider.pos + 1]
    ELSE provider

\* ---------------------------------------------------------------- main.py: calls

Event(hook, num, data) == [hook |-> hook, num |-> num, data |-> data]

\* The registry's count after a hook call with the given outcome.
CountAfter(outcome) ==
    IF outcome = "violation" /\ number_of_scan_failures < MaxFailures
    THEN number_of_scan_failures + 1
    ELSE number_of_scan_failures

\* ---------------------------------------------------------------- main.py: main and __scan_file

\* The pragma pass's state while no pass is under way.
PragmaIdle ==
    /\ phase = "idle"
    /\ marker_line_number = 1
    /\ pragma_lines = <<>>
    /\ document_pragmas = EmptyTable
    /\ errors = <<>>
    /\ compiled = {}
    /\ last = NoCall
    /\ pragma_token = NoToken

\* main, after the arguments are parsed and the files to scan are determined.
Init ==
    /\ PragmaIdle
    /\ x_test_scan_fault \in BOOLEAN
    /\ files_to_scan \in {[i \in 1..n |-> i] : n \in 0..MaxFiles}
    /\ file_index = 1
    /\ pc = "list_files"
    /\ file_lines = <<>>
    /\ source_provider = NoProvider
    /\ line_number = 1
    /\ next_line = <<>>
    /\ actual_tokens = <<>>
    /\ token_index = 0
    /\ events = <<>>
    /\ started = <<>>
    /\ number_of_scan_failures = 0
    /\ raised = "none"
    /\ setup_error = "none"
    /\ exit_code = -1

\* What main leaves alone while it sets up the run.
setup_frame ==
    <<x_test_scan_fault, files_to_scan, file_index, file_lines, source_provider,
      line_number, next_line, actual_tokens, token_index, events, started,
      number_of_scan_failures, raised>>

\* if args.list_files: print the files and exit with 0, or with 1 if there
\* are none; otherwise go on.
HandleListFiles ==
    /\ pc = "list_files"
    /\ \E list_files \in BOOLEAN :
          IF list_files
          THEN /\ pc' = "exited"
               /\ exit_code' = IF files_to_scan # <<>> THEN 0 ELSE 1
          ELSE /\ pc' = "initialize_plugins"
               /\ UNCHANGED exit_code
    /\ UNCHANGED <<setup_frame, setup_error, pragma_vars>>

\* __initialize_plugins as it would be if a BadPluginError were only logged.
InitializePlugins_logged_only ==
    /\ pc = "initialize_plugins"
    /\ \E fails \in BOOLEAN :
          /\ setup_error' = IF fails THEN "BadPluginError" ELSE setup_error
          /\ pc' = "initialize_parser"
          /\ UNCHANGED exit_code
    /\ UNCHANGED <<setup_frame, pragma_vars>>

\* __initialize_plugins: PluginManager.initialize loads the plugins; a
\* BadPluginError is printed and __handle_error calls sys.exit(1).
InitializePlugins ==
    /\ pc = "initialize_plugins"
    /\ \E fails \in BOOLEAN :
          IF fails
          THEN /\ setup_error' = "BadPluginError"
               /\ pc' = "exited"
               /\ exit_code' = 1
          ELSE /\ pc' = "initialize_parser"
               /\ UNCHANGED <<setup_error, exit_code>>
    /\ UNCHANGED <<setup_frame, pragma_vars>>

\* __initialize_parser: TokenizedMarkdown(resource_path) is built; a
\* BadTokenizationError (as under -x-init) is printed and ends the run.
InitializeParser ==
    /\ pc = "initialize_parser"
    /\ \E x_test_init_fault \in BOOLEAN :
          IF x_test_init_fault
          THEN /\ setup_error' = "BadTokenizationError"
               /\ pc' = "exited"
               /\ exit_code' = 1
          ELSE /\ pc' = "apply_configuration"
               /\ UNCHANGED <<setup_error, exit_code>>
    /\ UNCHANGED <<setup_frame, pragma_vars>>

\* __load_configuration_and_apply_to_plugins: the configuration file, if one
\* is given, is loaded (a file that cannot be read or parsed ends the run) and
\* applied to the plugins; a BadPluginError is printed and ends the run.
LoadConfigurationAndApply ==
    /\ pc = "apply_configuration"
    /\ \E outcome \in {"ok", "ConfigurationFileError", "BadPluginError"} :
          IF outcome # "ok"
          THEN /\ setup_error' = outcome
               /\ pc' = "exited"
               /\ exit_code' = 1
          ELSE /\ pc' = "for_next_file"
               /\ UNCHANGED <<setup_error, exit_code>>
    /\ UNCHANGED <<setup_frame, pragma_vars>>

\* __scan_file's opening as it would be with line_number counted from 0.
ScanFileOpen_from_zero ==
    /\ pc = "for_next_file"
    /\ file_index <= Len(files_to_scan)
    /\ \E content \in FileContents :
          /\ file_lines' = content
          /\ next_line' = get_next_line(FileSourceProvider, content)
          /\ source_provider' = advance(FileSourceProvider, content)
    /\ line_number' = 0
    /\ actual_tokens' = <<>>
    /\ token_index' = 0
    /\ events' = <<>>
    /\ pc' = "starting_new_file"
    /\ UNCHANGED <<x_test_scan_fault, files_to_scan, file_index, started,
                   number_of_scan_failures, raised, exit_code, setup_error, pragma_vars>>

\* for next_file in files_to_scan: __scan_file opens the file, sets
\* line_number to 1 and reads the first line.
ScanFileOpen ==
    /\ pc = "for_next_file"
    /\ file_index <= Len(files_to_scan)
    /\ \E content \in FileContents :
          /\ file_lines' = content
          /\ next_line' = get_next_line(FileSourceProvider, content)
          /\ source_provider' = advance(FileSourceProvider, content)
    /\ line_number' = 1
    /\ actual_tokens' = <<>>
    /\ token_index' = 0
    /\ events' = <<>>
    /\ pc' = "starting_new_file"
    /\ UNCHANGED <<x_test_scan_fault, files_to_scan, file_index, started,
                   number_of_scan_failures, raised, exit_code, setup_error, pragma_vars>>

\* context = self.__plugins.starting_new_file(next_file)
StartingNewFile ==
    /\ pc = "starting_new_file"
    /\ events' = Append(events, Event("starting_new_file", 0, <<>>))
    /\ started' = Append(started, files_to_scan[file_index])
    /\ \E outcome \in {"ok", "raise"} :
          /\ pc' = IF outcome = "raise" THEN "except" ELSE "while"
          /\ raised' = IF outcome = "raise" THEN "BadPluginError" ELSE raised
    /\ UNCHANGED <<x_test_scan_fault, files_to_scan, file_index, file_lines,
                   source_provider, line_number, next_line, actual_tokens, token_index,
                   number_of_scan_failures, exit_code, setup_error, pragma_vars>>

\* The while loop's turn as it would be if it read the next line twice,
\* dropping every other line.
NextLine_skipping ==
    /\ pc = "while"
    /\ next_line # <<>>
    /\ events' = Append(events, Event("next_line", line_number, next_line[1]))
    /\ \E outcome \in HookOutcomes :
          /\ number_of_scan_failures' = CountAfter(outcome)
          /\ IF outcome = "raise"
             THEN /\ pc' = "except"
                  /\ raised' = "BadPluginError"
                  /\ UNCHANGED <<line_number, next_line, source_provider>>
             ELSE /\ line_number' = line_number + 1
                  /\ next_line' = get_next_line(advance(source_provider, file_lines), file_lines)
                  /\ source_provider' = advance(advance(source_provider, file_lines), file_lines)
                  /\ UNCHANGED <<pc, raised>>
    /\ UNCHANGED <<x_test_scan_fault, files_to_scan, file_index, file_lines,
                   actual_tokens, token_index, started, exit_code, setup_error, pragma_vars>>

\* The while loop's turn as it would be if it ran pragma recognition on the
\* raw line before dispatching it.
NextLine_with_recognition ==
    /\ pc = "while"
    /\ next_line # <<>>
    /\ events' = Append(events, Event("next_line", line_number, next_line[1]))
    /\ pragma_lines' =
           look_for_pragmas(line_number, next_line[1], 0, <<>>, pragma_lines).pragma_lines
    /\ \E outcome \in HookOutcomes :
          /\ number_of_scan_failures' = CountAfter(outcome)
          /\ IF outcome = "raise"
             THEN /\ pc' = "except"
                  /\ raised' = "BadPluginError"
                  /\ UNCHANGED <<line_number, next_line, source_provider>>
             ELSE /\ line_number' = line_number + 1
                  /\ next_line' = get_next_line(source_provider, file_lines)
                  /\ source_provider' = advance(source_provider, file_lines)
                  /\ UNCHANGED <<pc, raised>>
    /\ UNCHANGED <<x_test_scan_fault, files_to_scan, file_index, file_lines,
                   actual_tokens, token_index, started, exit_code, setup_error,
                   phase, marker_line_number, document_pragmas, errors, compiled, last,
                   pragma_token>>

\* One turn of the while loop: next_line hook, line_number += 1, read on.
NextLine ==
    /\ pc = "while"
    /\ next_line # <<>>
    /\ events' = Append(events, Event("next_line", line_number, next_line[1]))
    /\ \E outcome \in HookOutcomes :
          /\ number_of_scan_failures' = CountAfter(outcome)
          /\ IF outcome = "raise"
             THEN /\ pc' = "except"
                  /\ raised' = "BadPluginError"
                  /\ UNCHANGED <<line_number, next_line, source_provider>>
             ELSE /\ line_number' = line_number + 1
                  /\ next_line' = get_next_line(source_provider, file_lines)
                  /\ source_provider' = advance(source_provider, file_lines)
                  /\ UNCHANGED <<pc, raised>>
    /\ UNCHANGED <<x_test_scan_fault, files_to_scan, file_index, file_lines,
                   actual_tokens, token_index, started, exit_code, setup_error, pragma_vars>>

\* The tokenizer's call as it would be if the raw pass's provider, already at
\* the end of the file, were handed on instead of a new one.
Tokenize_shared_cursor ==
    /\ pc = "while"
    /\ next_line = <<>>
    /\ LET provider == IF x_test_scan_fault THEN NoProvider ELSE source_provider
       IN  \E tokens \in TokenStreams, fails \in BOOLEAN :
             /\ (~provider.open) => fails
             /\ fails => tokens = <<>>
             /\ events' = Append(events,
                    Event("transform_from_provider",
                          IF provider.open THEN provider.pos ELSE -1, tokens))
             /\ source_provider' = provider
             /\ actual_tokens' = tokens
             /\ pc' = IF fails THEN "except" ELSE "for_next_token"
             /\ raised' = IF fails THEN "BadTokenizationError" ELSE raised
    /\ token_index' = 0
    /\ UNCHANGED <<x_test_scan_fault, files_to_scan, file_index, file_lines,
                   line_number, next_line, started, number_of_scan_failures,
                   exit_code, setup_error, pragma_vars>>

\* The tokenizer's call as it would be if its failure were noted and the scan
\* of the file went on with no tokens.
Tokenize_failure_noted ==
    /\ pc = "while"
    /\ next_line = <<>>
    /\ LET provider == IF x_test_scan_fault THEN NoProvider ELSE FileSourceProvider
       IN  \E tokens \in TokenStreams, fails \in BOOLEAN :
             /\ (~provider.open) => fails
             /\ fails => tokens = <<>>
             /\ events' = Append(events,
                    Event("transform_from_provider",
                          IF provider.open THEN provider.pos ELSE -1, tokens))
             /\ source_provider' =
                    IF provider.open /\ ~fails
                    THEN [provider EXCEPT !.pos = Len(file_lines)]
                    ELSE provider
             /\ actual_tokens' = tokens
             /\ pc' = "for_next_token"
             /\ raised' = IF fails THEN "BadTokenizationError" ELSE raised
    /\ token_index' = 0
    /\ UNCHANGED <<x_test_scan_fault, files_to_scan, file_index, file_lines,
                   line_number, next_line, started, number_of_scan_failures,
                   exit_code, setup_error, pragma_vars>>

\* The lines are exhausted: the file is opened again (or the provider is set
\* to None under -x-scan) and handed to the tokenizer, which returns the
\* tokens of the file or raises BadTokenizationError.
Tokenize ==
    /\ pc = "while"
    /\ next_line = <<>>
    /\ LET provider == IF x_test_scan_fault THEN NoProvider ELSE FileSourceProvider
       IN  \E tokens \in TokenStreams, fails \in BOOLEAN :
             /\ (~provider.open) => fails
             /\ fails => tokens = <<>>
             /\ events' = Append(events,
                    Event("transform_from_provider",
                          IF provider.open THEN provider.pos ELSE -1, tokens))
             /\ source_provider' =
                    IF provider.open /\ ~fails
                    THEN [provider EXCEPT !.pos = Len(file_lines)]
                    ELSE provider
             /\ actual_tokens' = tokens
             /\ pc' = IF fails THEN "except" ELSE "for_next_token"
             /\ raised' = IF fails THEN "BadTokenizationError" ELSE raised
    /\ token_index' = 0
    /\ UNCHANGED <<x_test_scan_fault, files_to_scan, file_index, file_lines,
                   line_number, next_line, started, number_of_scan_failures,
                   exit_code, setup_error, pragma_vars>>

\* One turn of the for loop over actual_tokens: next_token hook.
NextToken ==
    /\ pc = "for_next_token"
    /\ token_index < Len(actual_tokens)
    /\ events' = Append(events, Event("next_token", 0, <<actual_tokens[token_index + 1]>>))
    /\ \E outcome \in HookOutcomes :
          /\ number_of_scan_failures' = CountAfter(outcome)
          /\ IF outcome = "raise"
             THEN /\ pc' = "except"
                  /\ raised' = "BadPluginError"
                  /\ UNCHANGED token_index
             ELSE /\ token_index' = token_index + 1
                  /\ UNCHANGED <<pc, raised>>
    /\ UNCHANGED <<x_test_scan_fault, files_to_scan, file_index, file_lines,
                   source_provider, line_number, next_line, actual_tokens, started,
                   exit_code, setup_error, pragma_vars>>

\* self.__plugins.completed_file(context, line_number); __scan_file returns
\* and the loop of main goes to the next file.
CompletedFile ==
    /\ pc = "for_next_token"
    /\ token_index = Len(actual_tokens)
    /\ events' = Append(events, Event("completed_file", line_number, <<>>))
    /\ \E outcome \in HookOutcomes :
          /\ number_of_scan_failures' = CountAfter(outcome)
          /\ IF outcome = "raise"
             THEN /\ pc' = "except"
                  /\ raised' = "BadPluginError"
                  /\ UNCHANGED file_index
             ELSE /\ pc' = "for_next_file"
                  /\ file_index' = file_index + 1
                  /\ UNCHANGED raised
    /\ UNCHANGED <<x_test_scan_fault, files_to_scan, file_lines, source_provider,
                   line_number, next_line, actual_tokens, token_index, started,
                   exit_code, setup_error, pragma_vars>>

\* The handler as it would be if it let the loop go on to the next file.
HandleScanError_continue ==
    /\ pc = "except"
    /\ pc' = "for_next_file"
    /\ file_index' = file_index + 1
    /\ number_of_scan_failures' = CountAfter("violation")
    /\ UNCHANGED <<x_test_scan_fault, files_to_scan, file_lines,
                   source_provider, line_number, next_line, actual_tokens, token_index,
                   events, started, raised, exit_code, setup_error, pragma_vars>>

\* except BadPluginError / BadTokenizationError: __handle_scan_error formats
\* the error and __handle_error prints it and calls sys.exit(1).
HandleScanError ==
    /\ pc = "except"
    /\ pc' = "exited"
    /\ exit_code' = 1
    /\ UNCHANGED <<x_test_scan_fault, files_to_scan, file_index, file_lines,
                   source_provider, line_number, next_line, actual_tokens, token_index,
                   events, started, number_of_scan_failures, raised, setup_error, pragma_vars>>

\* The loop is over: sys.exit(1) if the registry counted failures.
MainEnd ==
    /\ pc = "for_next_file"
    /\ file_index > Len(files_to_scan)
    /\ pc' = "exited"
    /\ exit_code' = IF number_of_scan_failures # 0 THEN 1 ELSE 0
    /\ UNCHANGED <<x_test_scan_fault, files_to_scan, file_index, file_lines,
                   source_provider, line_number, next_line, actual_tokens, token_index,
                   events, started, number_of_scan_failures, raised, setup_error, pragma_vars>>

Next ==
    \/ HandleListFiles
    \/ InitializePlugins
    \/ InitializeParser
    \/ LoadConfigurationAndApply
    \/ ScanFileOpen
    \/ StartingNewFile
    \/ NextLine
    \/ Tokenize
    \/ NextToken
    \/ CompletedFile
    \/ HandleScanError
    \/ MainEnd

Spec == Init /\ [][Next]_vars

\* ---------------------------------------------------------------- what a stored directive says

\* The command of the directive stored under key k, case-folded.
DirectiveCommand(k) ==
    Lower(extract_until_spaces(command_data(k, pragma_lines), 0)[2])

\* The tokens of its id list, trimmed and case-folded, in order.
DirectiveTokens(k) ==
    LET data == command_data(k, pragma_lines)
        pieces == SplitComma(PyFrom(data, extract_until_spaces(data, 0)[1]))
    IN  [i \in 1..Len(pieces) |-> Lower(Strip(pieces[i]))]

\* The canonical ids its registered tokens stand for.
DirectiveIds(k) ==
    LET toks == DirectiveTokens(k)
    IN  {AllIds[toks[i]].plugin_id : i \in {j \in 1..Len(toks) : toks[j] \in DOMAIN AllIds}}

\* The calls to the error callback made by the last call.
NewErrors == SubSeq(errors, last.err_before + 1, Len(errors))

\* The two tables agree at every key but k.
SameExceptAt(t1, t2, k) ==
    /\ (DOMAIN t1) \ {k} = (DOMAIN t2) \ {k}
    /\ \A x \in (DOMAIN t1) \ {k} : t1[x] = t2[x]

\* The last call compiled a disable-next-line directive.
CompiledDisableNextLine ==
    /\ last.op = "compile"
    /\ DirectiveCommand(last.key) = CommandName

\* ---------------------------------------------------------------- claims

\* C1: compiling a recognized disable-next-line directive of source line N
\* (either spelling) that names at least one registered id writes the
\* suppression table at key N+1 and changes no other key, in particular not N
\* or N+2.
C1_NextLineOnly ==
    (CompiledDisableNextLine /\ DirectiveIds(last.key) # {}) =>
        LET n == actual_line_number(last.key)
        IN  /\ n + 1 \in DOMAIN document_pragmas
            /\ document_pragmas[n + 1] = DirectiveIds(last.key)
            /\ SameExceptAt(document_pragmas, last.dp_before, n + 1)

\* C1 witness: the alternate spelling on line 2 was compiled after the
\* standard one on line 1; lines 2 and 3 are suppressed, line 1 and 4 are not.
C1_Witness ==
    /\ CompiledDisableNextLine
    /\ last.key = -2
    /\ DirectiveIds(last.key) # {}
    /\ DOMAIN document_pragmas = {2, 3}

\* C2: every key of the pragma map is +L for a line L read with the standard
\* prefix or -L for a line L read with the alternate prefix, L a line already
\* read, and +L and -L are never both keys.
C2_SignedKeys ==
    \A k \in DictKeys(pragma_lines) :
        /\ k # 0
        /\ actual_line_number(k) < marker_line_number
        /\ k > 0 => /\ StartsWith(DictGet(pragma_lines, k), pragma_prefix)
                    /\ ~StartsWith(DictGet(pragma_lines, k), pragma_alternate_prefix)
        /\ k < 0 => StartsWith(DictGet(pragma_lines, k), pragma_alternate_prefix)
        /\ -k \notin DictKeys(pragma_lines)

\* C2 witness: a standard directive on line 1 and an alternate one on line 2.
C2_Witness ==
    /\ DictKeys(pragma_lines) = {1, -2}
    /\ DictGet(pragma_lines, 1) = LineStdOne
    /\ DictGet(pragma_lines, -2) = LineAltOne

\* C3: look_for_pragmas returns false and leaves the pragma map as it was
\* whenever the container depth is above 0 or the extracted whitespace is not
\* empty, whatever the line.
C3_NestedOrIndented ==
    (last.op = "look" /\ (last.depth > 0 \/ ~IsFalsyText(last.ws))) =>
        /\ last.ret = FALSE
        /\ pragma_lines = last.pl_before

\* C3 witness: a well-formed directive was offered with one space of
\* extracted whitespace at depth 0, and was turned down.
C3_Witness ==
    /\ last.op = "look"
    /\ last.line = LineStdOne
    /\ last.depth = 0
    /\ last.ws = <<" ">>
    /\ last.ret = FALSE

\* C4: in a disable-next-line list every token that is not registered draws
\* one error naming it (one per occurrence) and is skipped, and every
\* registered token of the list has its canonical id in the entry of the
\* following line.
C4_UnknownIdSkipped ==
    CompiledDisableNextLine =>
        LET toks == DirectiveTokens(last.key)
            n == actual_line_number(last.key)
            naming(t) == {j \in 1..Len(NewErrors) :
                             /\ NewErrors[j].wording = UnknownIdWording
                             /\ NewErrors[j].id = t
                             /\ NewErrors[j].line = n}
        IN  \A i \in 1..Len(toks) :
                /\ (toks[i] # <<>> /\ toks[i] \notin DOMAIN AllIds) =>
                       Cardinality(naming(toks[i]))
                           = Cardinality({j \in 1..Len(toks) : toks[j] = toks[i]})
                /\ toks[i] \in DOMAIN AllIds =>
                       /\ n + 1 \in DOMAIN document_pragmas
                       /\ AllIds[toks[i]].plugin_id \in document_pragmas[n + 1]

\* C4 witness: "zz,m2,zz" was compiled: two errors, and m2 is suppressed.
C4_Witness ==
    /\ CompiledDisableNextLine
    /\ last.line = LineStdUnknownTwice
    /\ Len(NewErrors) = 2
    /\ document_pragmas[actual_line_number(last.key) + 1] = {IdM2}

\* C5: compiling a directive whose command is empty, or is not
\* disable-next-line once case-folded, calls the error callback once and
\* leaves the suppression table as it was.
C5_BadCommand ==
    (last.op = "compile" /\ DirectiveCommand(last.key) # CommandName) =>
        /\ Len(errors) = last.err_before + 1
        /\ errors[Len(errors)].line = actual_line_number(last.key)
        /\ errors[Len(errors)].wording =
               IF DirectiveCommand(last.key) = <<>>
               THEN NoCommandWording ELSE NotUnderstoodWording
        /\ document_pragmas = last.dp_before

\* C5 witness: a directive without a command and one with another command
\* were compiled; each drew its error and the table is empty.
C5_Witness ==
    /\ last.op = "compile"
    /\ DirectiveCommand(last.key) # CommandName
    /\ Len(errors) = 2
    /\ {errors[1].wording, errors[2].wording} = {NoCommandWording, NotUnderstoodWording}
    /\ document_pragmas = EmptyTable


\* ---------------------------------------------------------------- the calls of one scan

IsNextLine(e) == e.hook = "next_line"
IsNextToken(e) == e.hook = "next_token"
IsTokenize(e) == e.hook = "transform_from_provider"

\* The next_line calls and the next_token calls of the current scan, in order.
LineCalls == SelectSeq(events, IsNextLine)
TokenCalls == SelectSeq(events, IsNextToken)

Hooks == [i \in 1..Len(events) |-> events[i].hook]

\* The tokenizer has been invoked in the current scan.
TokenizerInvoked == \E i \in 1..Len(events) : IsTokenize(events[i])

\* The current scan ran to its end: completed_file was called and returned.
ScanCompleted ==
    /\ events # <<>>
    /\ events[Len(events)].hook = "completed_file"
    /\ raised = "none"

\* Where a call stands in the order of a scan.
Rank(hook) ==
    CASE hook = "starting_new_file" -> 1
      [] hook = "next_line" -> 2
      [] hook = "transform_from_provider" -> 3
      [] hook = "next_token" -> 4
      [] hook = "completed_file" -> 5

CountOf(hook) == Cardinality({i \in 1..Len(events) : events[i].hook = hook})

\* C6: the line numbers handed to next_line are 1, 2, ... in that order, each
\* with the line of that number, all n of them once the lines are exhausted;
\* the tokens handed to next_token are the tokenizer's output in its order,
\* all of it once the scan has completed.
C6_LinesAndTokensInOrder ==
    /\ Len(LineCalls) <= Len(file_lines)
    /\ \A i \in 1..Len(LineCalls) :
          /\ LineCalls[i].num = i
          /\ LineCalls[i].data = file_lines[i]
    /\ Len(TokenCalls) <= Len(actual_tokens)
    /\ \A i \in 1..Len(TokenCalls) : TokenCalls[i].data = <<actual_tokens[i]>>
    /\ TokenizerInvoked => Len(LineCalls) = Len(file_lines)
    /\ ScanCompleted => Len(TokenCalls) = Len(actual_tokens)

\* C6 witness: a completed scan of two different lines and two different tokens.
C6_Witness ==
    /\ ScanCompleted
    /\ file_lines = <<LineStdOne, LinePlain>>
    /\ actual_tokens = <<"para", "blank">>
    /\ Len(LineCalls) = 2
    /\ Len(TokenCalls) = 2

\* C7: the calls of a scan come in the order starting_new_file (once, first),
\* next_line calls, the tokenizer (once, on a provider whose cursor is at the
\* start of the file), next_token calls, completed_file (once); a scan that
\* completes has made each of the three single calls.
C7_CallOrder ==
    /\ \A i \in 1..Len(events) : \A j \in i..Len(events) :
          Rank(events[i].hook) <= Rank(events[j].hook)
    /\ events # <<>> => events[1].hook = "starting_new_file"
    /\ CountOf("starting_new_file") <= 1
    /\ CountOf("transform_from_provider") <= 1
    /\ CountOf("completed_file") <= 1
    /\ \A i \in 1..Len(events) :
          (IsTokenize(events[i]) /\ ~x_test_scan_fault) => events[i].num = 0
    /\ ScanCompleted =>
          /\ CountOf("starting_new_file") = 1
          /\ CountOf("transform_from_provider") = 1

\* C7 witness: a completed scan of a file of two lines with one token.
C7_Witness ==
    /\ ScanCompleted
    /\ Hooks = <<"starting_new_file", "next_line", "next_line",
                 "transform_from_provider", "next_token", "completed_file">>

C10_CompletedWithLineCount ==
    \A i \in 1..Len(events) :
        events[i].hook = "completed_file" => events[i].num = Len(LineCalls)

\* C10 as amended: completed_file is called with n + 1, one more than the
\* number n of lines dispatched to next_line (1 for an empty file).
C10_CompletedWithNextLineNumber ==
    \A i \in 1..Len(events) :
        events[i].hook = "completed_file" =>
            /\ events[i].num = Len(LineCalls) + 1
            /\ Len(LineCalls) = Len(file_lines)

\* C10 witness: a completed scan of an empty file: completed_file got 1.
C10_Witness ==
    /\ ScanCompleted
    /\ file_lines = <<>>
    /\ events[Len(events)].num = 1

\* C11: when PluginManager.initialize or apply_configuration raises
\* BadPluginError the run has ended with status 1 and no file is scanned: no
\* hook has been called for any file.
C11_SetupFailureEndsRun ==
    setup_error = "BadPluginError" =>
        /\ pc = "exited"
        /\ exit_code = 1
        /\ started = <<>>
        /\ events = <<>>
        /\ file_index = 1

\* C11 witness: plugin loading failed in a run over two files.
C11_Witness ==
    /\ setup_error = "BadPluginError"
    /\ Len(files_to_scan) = 2
    /\ pc = "exited"
    /\ exit_code = 1

\* ---------------------------------------------------------------- what a token serializes to

\* One entry as "<key>:<raw text>".
RenderEntry(pair) == IntToStr(pair[1]) \o <<":">> \o pair[2]

\* The entries of d, each after the other, with ";" between two of them.
RECURSIVE RenderJoined(_)
RenderJoined(d) ==
    IF d = <<>> THEN <<>>
    ELSE IF Len(d) = 1 THEN RenderEntry(d[1])
    ELSE RenderJoined(SubSeq(d, 1, Len(d) - 1)) \o <<";">> \o RenderEntry(d[Len(d)])

\* A PragmaToken has been built.
TokenBuilt == pragma_token # NoToken

\* The dicts holding the pairs of d in another order.
Reorderings(d) ==
    {[i \in 1..Len(d) |-> d[f[i]]] :
        f \in {g \in [1..Len(d) -> 1..Len(d)] : \A i, j \in 1..Len(d) : g[i] = g[j] => i = j}}

\* C12: the extra_data of a PragmaToken is its entries as "<key>:<raw text>"
\* joined with ";": "k:t" for the map {k: t}, the empty text for the empty
\* map, and never a leading separator.
C12_Serialization ==
    TokenBuilt =>
        /\ pragma_token.extra_data = RenderJoined(pragma_token.pragma_lines)
        /\ pragma_token.pragma_lines = <<>> => pragma_token.extra_data = <<>>
        /\ pragma_token.extra_data # <<>> => pragma_token.extra_data[1] # ";"

\* C12 witness: the token of the map {1: "<!-- pyml disable-next-line m1 -->"}.
C12_Witness ==
    /\ TokenBuilt
    /\ pragma_token.pragma_lines = <<<<1, LineStdOne>>>>
    /\ pragma_token.extra_data = <<"1", ":">> \o LineStdOne

StoredAfterPrefix(k) == RStrip(PyFrom(DictGet(pragma_lines, k), prefix_length(k)))

\* The last call reported the wording w.
Reported(w) == \E j \in 1..Len(NewErrors) : NewErrors[j].wording = w

\* C14: the command compile_single_pragma takes is the first
\* whitespace-delimited token after the title, however many spaces come
\* before it; "specified without command" is reported exactly when there is
\* no token at all.
C14_CommandIsFirstToken ==
    last.op = "compile" =>
        LET body == command_data(last.key, pragma_lines)
            first == Lower(extract_until_spaces(LStrip(body), 0)[2])
        IN  /\ Reported(NoCommandWording) <=> Strip(body) = <<>>
            /\ (Strip(body) # <<>> /\ first # CommandName) =>
                   \E j \in 1..Len(NewErrors) :
                       /\ NewErrors[j].wording = NotUnderstoodWording
                       /\ NewErrors[j].command = first
            /\ first = CommandName => ~Reported(NotUnderstoodWording)

\* The plugin a registered token names.
PluginNamed(token) == IF token \in {IdM1, AliasM1} THEN "plugin 1" ELSE "plugin 2"

\* C15: every id in the suppression table is the plugin_id of a registry
\* entry and never an alias; a registered token, given as id or alias in any
\* case and with spaces around it, puts its plugin's id in the entry, and the
\* tokens of one plugin put a single id there.
C15_CanonicalIdsOnly ==
    /\ \A k \in DOMAIN document_pragmas :
          document_pragmas[k] \subseteq ({IdM1, IdM2} \ {AliasM1, AliasM2})
    /\ (CompiledDisableNextLine /\ DirectiveIds(last.key) # {}) =>
          LET toks == DirectiveTokens(last.key)
              named == {toks[i] : i \in {j \in 1..Len(toks) : toks[j] \in DOMAIN AllIds}}
              entry == document_pragmas[(IF last.key < 0 THEN -last.key ELSE last.key) + 1]
          IN  /\ IdM1 \in entry <=> named \cap {IdM1, AliasM1} # {}
              /\ IdM2 \in entry <=> named \cap {IdM2, AliasM2} # {}
              /\ Cardinality(entry) = Cardinality({PluginNamed(t) : t \in named})

\* C15 witness: "zz,aa,m1" names plugin m1 by its alias and by its id; the
\* entry holds the one id m1.
C15_Witness ==
    /\ CompiledDisableNextLine
    /\ last.line = LineAltSamePlugin
    /\ document_pragmas[(-last.key) + 1] = {IdM1}

\* C17: compile_single_pragma does not raise on a line look_for_pragmas
\* stored: what follows the prefix and the spaces starts with the title and
\* ends with the closing token without the two overlapping, so the slice
\* between them is well formed; only the callback is called and the
\* compilation of the other keys goes on.
C17_CompileNeverRaises ==
    /\ phase # "raised"
    /\ \A k \in DictKeys(pragma_lines) :
          LET rest == StoredAfterPrefix(k)
              index == extract_spaces(rest, 0)[1]
          IN  /\ index # -1
              /\ StartsWith(Lower(PyFrom(rest, index)), pragma_title)
              /\ EndsWith(rest, pragma_suffix)
              /\ index + Len(pragma_title) <= Len(rest) - Len(pragma_suffix)
    /\ last.op = "compile" =>
          /\ last.ret = TRUE
          /\ Len(errors) >= last.err_before

\* C17 witness: a directive without a command and one with an unknown
\* command were both compiled; two errors, no exception.
C17_Witness ==
    /\ last.op = "compile"
    /\ last.ret = TRUE
    /\ phase = "compile"
    /\ compiled = {1, -2}
    /\ DictGet(pragma_lines, 1) = LineStdNoCommand
    /\ DictGet(pragma_lines, -2) = LineAltOtherCommand
    /\ Len(errors) = 2

\* C18: look_for_pragmas leaves the pragma map as it was when it returns
\* false; when it returns true it has set the one key +n or -n of the current
\* line n to the raw line, unmodified, and left every other entry as it was.
C18_MapChangedOnlyOnMatch ==
    last.op = "look" =>
        /\ last.ret = FALSE => pragma_lines = last.pl_before
        /\ last.ret = TRUE =>
              \E k \in {last.key, -last.key} :
                  /\ k \notin DictKeys(last.pl_before)
                  /\ pragma_lines = Append(last.pl_before, <<k, last.line>>)

\* C18 witness: an upper case directive with trailing whitespace on line 2 was
\* stored as it was written, after the entry of line 1.
C18_Witness ==
    /\ last.op = "look"
    /\ last.ret = TRUE
    /\ last.line = LineStdUpper
    /\ Len(pragma_lines) = 2
    /\ pragma_lines[2] = <<2, LineStdUpper>>

\* C19: every error of a compilation carries the magnitude of the signed key,
\* a positive line number, and it is the line the directive was read on; the
\* prefix stripped is 4 long for a positive key and 5 long for a negative one,
\* the prefix the stored line starts with.
C19_UnsignedLineAndPrefix ==
    /\ \A k \in DictKeys(pragma_lines) :
          /\ k > 0 => /\ prefix_length(k) = 4
                      /\ StartsWith(DictGet(pragma_lines, k), pragma_prefix)
                      /\ ~StartsWith(DictGet(pragma_lines, k), pragma_alternate_prefix)
          /\ k < 0 => /\ prefix_length(k) = 5
                      /\ StartsWith(DictGet(pragma_lines, k), pragma_alternate_prefix)
    /\ last.op = "compile" =>
          \A j \in 1..Len(NewErrors) :
              /\ NewErrors[j].line > 0
              /\ NewErrors[j].line = (IF last.key < 0 THEN -last.key ELSE last.key)
              /\ NewErrors[j].line < marker_line_number

\* C19 witness: the alternate directive of line 2 drew an error for line 2.
C19_Witness ==
    /\ last.op = "compile"
    /\ last.key = -2
    /\ Len(NewErrors) = 1
    /\ NewErrors[1].line = 2
    /\ NewErrors[1].wording = NoCommandWording

\* ---------------------------------------------------------------- entries of the table

\* The line a signed key stands for.
Magnitude(k) == IF k < 0 THEN -k ELSE k

\* C16: every entry of the suppression table is a non-empty set; a
\* disable-next-line directive none of whose tokens is registered leaves the
\* table as it was, an entry already there for its line included.
C16_EntriesNonEmpty ==
    /\ \A k \in DOMAIN document_pragmas : document_pragmas[k] # {}
    /\ (CompiledDisableNextLine /\ DirectiveIds(last.key) = {}) =>
          document_pragmas = last.dp_before

\* C16 witness: the alternate directive of line 1 set the entry of line 2 to
\* {m2}; the standard directive of line 1, naming only an unknown id, was
\* compiled after it and the entry is still {m2}.
C16_Witness ==
    /\ CompiledDisableNextLine
    /\ last.key = 1
    /\ last.line = LineStdUnknown
    /\ -1 \in compiled
    /\ Len(NewErrors) = 1
    /\ 2 \in DOMAIN document_pragmas
    /\ document_pragmas[2] = {IdM2}

\* C20: when the directives under +N and -N are both compiled and both
\* resolve to at least one id, the entry of line N + 1 is the id set of the
\* one compiled later, not the union of the two.
C20_LaterDirectiveWins ==
    ( /\ CompiledDisableNextLine
      /\ -last.key \in compiled
      /\ DirectiveCommand(-last.key) = CommandName
      /\ DirectiveIds(last.key) # {}
      /\ DirectiveIds(-last.key) # {} ) =>
        /\ Magnitude(last.key) + 1 \in DOMAIN document_pragmas
        /\ document_pragmas[Magnitude(last.key) + 1] = DirectiveIds(last.key)

\* C20 witness: +2 names m1 and -2 names m2; -2 was compiled after +2 and the
\* entry of line 3 is {m2}, which is not the union.
C20_Witness ==
    /\ CompiledDisableNextLine
    /\ last.key = -2
    /\ 2 \in compiled
    /\ DirectiveIds(2) = {IdM1}
    /\ DirectiveIds(-2) = {IdM2}
    /\ last.dp_before[3] = {IdM1}
    /\ document_pragmas[3] = {IdM2}

\* ---------------------------------------------------------------- one raw pass, compiled

\* The compiled disable-next-line directives of line n that resolve to at
\* least one id.
WritersOf(n) ==
    {s \in {n, -n} \cap compiled :
        /\ DirectiveCommand(s) = CommandName
        /\ DirectiveIds(s) # {}}

\* C21: after one raw pass, every key k of the suppression table is at least
\* 2 and line k - 1 holds a recognized, compiled disable-next-line directive
\* with a registered id, whose id set the entry is; a line has one key in the
\* pragma map, so no table key is written twice: a compilation leaves every
\* entry already there as it was, and there are no more entries than
\* recognized directives.
C21_OneEntryPerDirective ==
    /\ \A k \in DOMAIN document_pragmas :
          /\ k >= 2
          /\ k - 1 < marker_line_number
          /\ \E s \in WritersOf(k - 1) : document_pragmas[k] = DirectiveIds(s)
    /\ \A n \in 1..MaxPragmaLines :
          ~(n \in DictKeys(pragma_lines) /\ -n \in DictKeys(pragma_lines))
    /\ Cardinality(DOMAIN document_pragmas) <= Cardinality(compiled)
    /\ Cardinality(compiled) <= Len(pragma_lines)
    /\ last.op = "compile" =>
          /\ \A k \in DOMAIN last.dp_before :
                /\ k \in DOMAIN document_pragmas
                /\ document_pragmas[k] = last.dp_before[k]
          /\ document_pragmas # last.dp_before =>
                Magnitude(last.key) + 1 \notin DOMAIN last.dp_before

\* C21 witness: the directives of lines 1 and 2, one of each spelling, were
\* both compiled; the table has the two entries 2 and 3, each written once.
C21_Witness ==
    /\ last.op = "compile"
    /\ compiled = {1, -2}
    /\ DOMAIN document_pragmas = {2, 3}
    /\ DOMAIN last.dp_before \in {{2}, {3}}
    /\ document_pragmas[2] = DirectiveIds(1)
    /\ document_pragmas[3] = DirectiveIds(-2)

\* ---------------------------------------------------------------- a failure during a file's scan

\* The hook of the last call made for the file.
LastHook == events[Len(events)].hook

\* The calls made for a file whose scan failed.
C22_CallsOfFailedFile ==
    /\ raised = "BadTokenizationError" =>
          /\ Len(events) = Len(file_lines) + 2
          /\ events[1].hook = "starting_new_file"
          /\ \A i \in 1..Len(file_lines) :
                events[i + 1] = Event("next_line", i, file_lines[i])
          /\ IsTokenize(events[Len(events)])
          /\ CountOf("next_token") = 0
          /\ CountOf("completed_file") = 0
    /\ raised = "BadPluginError" =>
          /\ events # <<>>
          /\ LastHook \in {"starting_new_file", "next_line", "next_token", "completed_file"}
          /\ LastHook = "starting_new_file" => Len(events) = 1
          /\ LastHook \in {"starting_new_file", "next_line"} =>
                /\ ~TokenizerInvoked
                /\ CountOf("next_token") = 0
          /\ LastHook # "completed_file" => CountOf("completed_file") = 0
          /\ LastHook = "completed_file" => CountOf("completed_file") = 1
    /\ raised # "none" =>
          /\ started # <<>>
          /\ started[Len(started)] = files_to_scan[file_index]

\* C22: when the tokenizer fails for a file, starting_new_file and the
\* next_line hook of every line have been called and no next_token and no
\* completed_file hook is called for it, then or later; when a hook raises,
\* it is the last call made for the file.
C22_FailureStopsHooks ==
    /\ []C22_CallsOfFailedFile
    /\ [][raised # "none" =>
            /\ events' = events
            /\ started' = started
            /\ file_index' = file_index]_vars

\* C22 witness: the tokenizer failed on a file of two lines, after
\* starting_new_file and both next_line calls, and the run has ended.
C22_Witness ==
    /\ raised = "BadTokenizationError"
    /\ pc = "exited"
    /\ Len(file_lines) = 2
    /\ Hooks = <<"starting_new_file", "next_line", "next_line", "transform_from_provider">>

====
